---- MODULE Spec2Model ----
(***************************************************************************)
(* sshexpect: pexpect-style control of a remote command over SSH.          *)
(*                                                                         *)
(* The module models src/sshexpect/sshexpect.py: the two spawn paths       *)
(* (spawn_asyncssh, spawn_paramiko), the os.pipe() bridge between the      *)
(* producer of the remote output and the fdspawn object, the redirect()    *)
(* thread of the paramiko path, terminate(), and the expect() call that    *)
(* both classes inherit from pexpect.fdpexpect.fdspawn.                    *)
(*                                                                         *)
(* Bytes are integers (ASCII code points), the text the expect engine      *)
(* holds is a sequence of one-character strings: fdspawn is built with     *)
(* encoding="utf-8", so every byte read from the pipe goes through the     *)
(* incremental decoder before it reaches the buffer.  The remote output    *)
(* is taken from the ASCII range.                                          *)
(*                                                                         *)
(* Specifications: Spec (one spawned process: remote output, producer,     *)
(* expect with timeouts, terminate), SearchSpec (pattern matching),        *)
(* TimeoutSpec (calls after a timeout), IOSpec (send, terminate and        *)
(* close() interleaved with the output path), SendSpec (send under every   *)
(* errors option), SpawnSpec (sequences of spawn calls, with the library   *)
(* calls that can raise) and OptSpec (the options of one spawn call).      *)
(***************************************************************************)
EXTENDS Integers, Sequences, FiniteSets, TLC

VARIABLES
    path,         \* "asyncssh" | "paramiko": the class spawn() dispatched to
    buff_size,    \* redirect(): kwmap["spawn"].get("buff_size", 2048); 0: none
    emitted,      \* every byte the remote command has written, in order
    exited,       \* the remote command has exited
    sig,          \* asyncssh: last signal sent to the remote command
    in_buffer,    \* bytes received on the channel, not yet taken by the producer
    status_ready, \* paramiko: session.exit_status_ready()
    chan_closed,  \* the SSH channel is closed
    pipe,         \* bytes in the os.pipe(), write-end to read-end
    writeOpen,    \* the pipe's write-end file descriptor is open
    fwd_pc,       \* redirect(): position of the thread
    fwd_chunk,    \* redirect(): bytes returned by session.recv, being written
    exp_pc,       \* "idle" | "waiting": an expect call is in flight
    patterns,     \* the pattern list of the current expect call
    timeout,      \* its timeout: None (not limited) or a number of clock ticks
    elapsed,      \* clock ticks since the expect call started
    buffer,       \* spawn._buffer (= spawn._before: no searchwindowsize is set)
    before,       \* spawn.before
    after,        \* spawn.after
    match_index,  \* spawn.match_index (-1: None)
    outcome,      \* how the last expect call ended
    consumed,     \* text dropped from the buffer by earlier matches
    terminated,   \* terminate has been called
    term_raised,  \* the last terminate call raised
    codec_errors, \* spawn.codec_errors: the errors option ("strict" by default)
    send_arg,     \* the argument of the last send call
    stdin,        \* the bytes the last send call put on the channel
    send_ret,     \* what the last send call returned
    send_raised,  \* the last send call raised
    HAVE_ASYNCSSH, \* import asyncssh succeeded
    HAVE_PARAMIKO, \* import paramiko succeeded
    connection,   \* spawn(): the type of the connection argument
    kw,           \* spawn(): the keyword options given
    spawn_err,    \* the exception that left the last spawn call, or "none"
    fds,          \* the file descriptors open in this process
    sessions,     \* the SSH session channels open
    writers,      \* the producers started, each with the write-end it writes
    procs,        \* the objects spawn has returned
    requests,     \* the keyword arguments of the last spawn's library calls
    readOpen,     \* the pipe's read-end file descriptor (child_fd) is open
    read_log      \* every byte os.read has returned from the read-end

vars == <<path, buff_size, emitted, exited, sig, in_buffer, status_ready,
          chan_closed, pipe, writeOpen, fwd_pc, fwd_chunk, exp_pc, patterns,
          timeout, elapsed, buffer, before, after, match_index, outcome,
          consumed, terminated, term_raised, codec_errors, send_arg, stdin,
          send_ret, send_raised, HAVE_ASYNCSSH, HAVE_PARAMIKO, connection,
          kw, spawn_err, fds, sessions, writers, procs, requests, readOpen,
          read_log>>

remoteVars == <<emitted, exited, sig, in_buffer, status_ready, chan_closed>>
bridgeVars == <<pipe, writeOpen>>
fwdVars == <<fwd_pc, fwd_chunk>>
expectVars == <<exp_pc, patterns, timeout, elapsed, buffer, before, after,
                match_index, outcome, consumed>>
termVars == <<terminated, term_raised>>
spawnVars == <<path, buff_size, codec_errors>>
sendVars == <<send_arg, stdin, send_ret, send_raised>>
haveVars == <<HAVE_ASYNCSSH, HAVE_PARAMIKO>>
ctorVars == <<connection, kw, spawn_err, fds, sessions, writers, procs,
              requests>>
outVars == <<readOpen, read_log>>
auxVars == <<sendVars, haveVars, ctorVars, outVars>>

---------------------------------------------------------------------------
(* Bounds of the model. *)

MaxEmit == 3
MaxBuffSize == 2
PipeCap == 2
MaxTime == 2

---------------------------------------------------------------------------
(* Bytes and text. *)

\* The bytes the remote command writes: "a", "b".
RemoteBytes == {97, 98}

\* The bytes of the pattern-matching specification: "a", "b", ".".
StreamBytes == {97, 98, 46}

\* utf-8 decoding of one byte of the ASCII range.
Chr(b) ==
    CASE b = 97 -> "a"
      [] b = 98 -> "b"
      [] b = 46 -> "."

\* utf-8 encoding of one character of the ASCII range.
Ord(c) ==
    CASE c = "a" -> 97
      [] c = "b" -> 98
      [] c = "." -> 46

\* spawn._decoder.decode(s, final=False) on ASCII input.
Decode(bs) == [i \in 1..Len(bs) |-> Chr(bs[i])]

Encode(cs) == [i \in 1..Len(cs) |-> Ord(cs[i])]

Min(a, b) == IF a < b THEN a ELSE b

Take(s, n) == SubSeq(s, 1, Min(n, Len(s)))

Drop(s, n) == SubSeq(s, Min(n, Len(s)) + 1, Len(s))

IsPrefix(s, t) == Len(s) <= Len(t) /\ SubSeq(t, 1, Len(s)) = s

---------------------------------------------------------------------------
(* The pattern list of an expect call.  fdspawn.expect hands the list to   *)
(* compile_pattern_list: a str entry is compiled with re.compile(p,        *)
(* re.DOTALL), pexpect.EOF and pexpect.TIMEOUT stay as they are.           *)

Str(s) == [kind |-> "str", src |-> s]

EOF == [kind |-> "EOF", src |-> <<>>]

TIMEOUT == [kind |-> "TIMEOUT", src |-> <<>>]

\* re.compile of a str pattern: "." is the wildcard, any other character of
\* the model's alphabet stands for itself.
Compile(src) ==
    [k \in 1..Len(src) |->
        IF src[k] = "." THEN [any |-> TRUE, lit |-> "."]
        ELSE [any |-> FALSE, lit |-> src[k]]]

\* A matcher that compares the first atom of the pattern only.
ReMatchAtFirstAtom(rx, buf, i) ==
    /\ i >= 1
    /\ i + Len(rx) - 1 <= Len(buf)
    /\ \A k \in 1..Min(1, Len(rx)) : rx[k].any \/ rx[k].lit = buf[i + k - 1]

\* The compiled pattern rx matches buf at (1-based) position i.
ReMatchAt(rx, buf, i) ==
    /\ i >= 1
    /\ i + Len(rx) - 1 <= Len(buf)
    /\ \A k \in 1..Len(rx) : rx[k].any \/ rx[k].lit = buf[i + k - 1]

\* rx.search(buf): the start of the leftmost match, 0 when there is none.
ReSearch(rx, buf) ==
    LET starts == {i \in 1..Len(buf) : ReMatchAt(rx, buf, i)}
    IN  IF starts = {} THEN 0
        ELSE CHOOSE i \in starts : \A j \in starts : i <= j

\* An index that defaults to 0 where the code defaults to -1.
EofIndexDefaultZero(ps) ==
    LET at == {n \in 1..Len(ps) : ps[n].kind = "EOF"}
    IN  IF at = {} THEN 0
        ELSE (CHOOSE n \in at : \A m \in at : m <= n) - 1

\* searcher_re.__init__: the index of EOF in the list (the last one), or -1.
EofIndex(ps) ==
    LET at == {n \in 1..Len(ps) : ps[n].kind = "EOF"}
    IN  IF at = {} THEN -1
        ELSE (CHOOSE n \in at : \A m \in at : m <= n) - 1

\* searcher_re.__init__: the index of TIMEOUT in the list (the last one), or -1.
TimeoutIndex(ps) ==
    LET at == {n \in 1..Len(ps) : ps[n].kind = "TIMEOUT"}
    IN  IF at = {} THEN -1
        ELSE (CHOOSE n \in at : \A m \in at : m <= n) - 1

NoMatch == [index |-> -1, start |-> 0, end |-> 0]

\* A comparison that lets a later pattern take over a tie.
IsBetterOrEqual(best, st) == best.index = -1 \/ st <= best.start

\* searcher_re.search: "if first_match is None or n < first_match".
IsBetter(best, st) == best.index = -1 \/ st < best.start

\* searcher_re.search: the loop over self._searches from entry n on; best is
\* (best_index, first_match, end) so far.  index is 0-based as in Python,
\* start and end are 1-based positions in buf (end exclusive).
RECURSIVE SearchFrom(_, _, _, _)
SearchFrom(ps, buf, n, best) ==
    IF n > Len(ps) THEN best
    ELSE IF ps[n].kind # "str" THEN SearchFrom(ps, buf, n + 1, best)
    ELSE LET st == ReSearch(Compile(ps[n].src), buf)
         IN  IF st # 0 /\ IsBetter(best, st)
             THEN SearchFrom(ps, buf, n + 1,
                      [index |-> n - 1, start |-> st,
                       end |-> st + Len(ps[n].src)])
             ELSE SearchFrom(ps, buf, n + 1, best)

\* searcher_re.search(buffer, freshlen, searchwindowsize=None).
Search(ps, buf) == SearchFrom(ps, buf, 1, NoMatch)

NoAfter == [kind |-> "none", text |-> <<>>]

---------------------------------------------------------------------------
(* The state after spawn() has returned.                                   *)

\* The pattern lists the callers of the system specification pass.
SysPatternSets ==
    LET P == Str(<<"a", "b">>)
    IN  { <<P, EOF>>, <<TIMEOUT, P>> }

\* The timeouts they pass: None, or a positive number of clock ticks.
NoTimeout == [limited |-> FALSE, ticks |-> 0]

Timeouts ==
    {NoTimeout} \cup {[limited |-> TRUE, ticks |-> t] : t \in 1..(MaxTime - 1)}

\* No send call has been made.
NoSend == [kind |-> "none", val |-> <<>>]

SendInit ==
    /\ send_arg = NoSend
    /\ stdin = <<>>
    /\ send_ret = 0
    /\ send_raised = FALSE

\* Keyword arguments: a function from the names given to their values.
NoKw == [n \in {} |-> 0]

NoRequests == [session |-> NoKw, pty |-> NoKw, process |-> NoKw]

\* No spawn call has been made.
CtorInit ==
    /\ connection = "none"
    /\ kw = NoKw
    /\ spawn_err = "none"
    /\ fds = {}
    /\ sessions = {}
    /\ writers = <<>>
    /\ procs = <<>>
    /\ requests = NoRequests

\* Both libraries are installed.
HaveInit ==
    /\ HAVE_ASYNCSSH = TRUE
    /\ HAVE_PARAMIKO = TRUE

\* The read-end is open and nothing has been read from it.
OutInit ==
    /\ readOpen = TRUE
    /\ read_log = <<>>

AuxInit == SendInit /\ HaveInit /\ CtorInit /\ OutInit

\* The buff_size option: the chunk size of redirect() on the paramiko path;
\* the asyncssh path has no such option (0).
BuffSizes(p) == IF p = "paramiko" THEN 1..MaxBuffSize ELSE {0}

\* Nothing has been received, read, expected or terminated yet.
Quiet ==
    /\ emitted = <<>>
    /\ exited = FALSE
    /\ sig = "none"
    /\ in_buffer = <<>>
    /\ status_ready = FALSE
    /\ chan_closed = FALSE
    /\ pipe = <<>>
    /\ writeOpen = TRUE
    /\ fwd_chunk = <<>>
    /\ exp_pc = "idle"
    /\ patterns = <<>>
    /\ timeout = NoTimeout
    /\ elapsed = 0
    /\ buffer = <<>>
    /\ before = <<>>
    /\ after = NoAfter
    /\ match_index = -1
    /\ outcome = "none"
    /\ consumed = <<>>
    /\ terminated = FALSE
    /\ term_raised = FALSE

\* The object spawn() returned, before any call on it.
Started ==
    /\ path \in {"asyncssh", "paramiko"}
    /\ buff_size \in BuffSizes(path)
    /\ fwd_pc = IF path = "paramiko" THEN "recv_ready" ELSE "none"
    /\ Quiet
    /\ AuxInit

\* spawn(): the dispatch on the connection's type, the buff_size option and
\* the default of the errors option.
Init ==
    /\ Started
    /\ codec_errors = "strict"

---------------------------------------------------------------------------
(* The remote command and the SSH channel.                                 *)

\* The remote command writes one byte; the transport delivers it to the
\* channel (paramiko: Channel.in_buffer; asyncssh: the process's stdout
\* writer).  A closed channel takes no data.
Emit(b) ==
    /\ ~exited
    /\ ~chan_closed
    /\ Len(emitted) < MaxEmit
    /\ emitted' = Append(emitted, b)
    /\ in_buffer' = Append(in_buffer, b)
    /\ UNCHANGED <<exited, sig, status_ready, chan_closed>>
    /\ UNCHANGED <<bridgeVars, fwdVars, expectVars, termVars, spawnVars,
                   auxVars>>

\* The remote command exits (by itself, or on a signal).  paramiko: the
\* exit-status request sets Channel.status_event.  asyncssh: exit-status,
\* EOF and close arrive together and the channel is no longer open.
RemoteExit ==
    /\ ~exited
    /\ exited' = TRUE
    /\ status_ready' = IF path = "paramiko" THEN TRUE ELSE status_ready
    /\ chan_closed' = IF path = "asyncssh" THEN TRUE ELSE chan_closed
    /\ UNCHANGED <<emitted, sig, in_buffer>>
    /\ UNCHANGED <<bridgeVars, fwdVars, expectVars, termVars, spawnVars,
                   auxVars>>

---------------------------------------------------------------------------
(* asyncssh path: create_process(stdout=<write-end>) writes the output     *)
(* straight into the pipe and closes the write-end at the end of output.   *)

NativeWrite ==
    /\ path = "asyncssh"
    /\ writeOpen
    /\ readOpen
    /\ in_buffer # <<>>
    /\ Len(pipe) < PipeCap
    /\ \E k \in 1..Min(PipeCap - Len(pipe), Len(in_buffer)) :
          /\ pipe' = pipe \o Take(in_buffer, k)
          /\ in_buffer' = Drop(in_buffer, k)
    /\ UNCHANGED <<emitted, exited, sig, status_ready, chan_closed, writeOpen>>
    /\ UNCHANGED <<fwdVars, expectVars, termVars, spawnVars, auxVars>>

NativeClose ==
    /\ path = "asyncssh"
    /\ writeOpen
    /\ exited
    /\ in_buffer = <<>>
    /\ writeOpen' = FALSE
    /\ UNCHANGED <<pipe, remoteVars, fwdVars, expectVars, termVars, spawnVars,
                   auxVars>>

---------------------------------------------------------------------------
(* paramiko path: the redirect() thread.                                   *)

\* session.recv(buff_size): up to buff_size bytes from the front of the
\* channel's buffer.
Recv(buf, n) == Take(buf, n)

\* os.write(stdout, data) with room for k bytes: the pipe afterwards.
PipeWrite(p, data, k) == p \o Take(data, k)

\* "if session.recv_ready():"
FwdRecvReady ==
    /\ fwd_pc = "recv_ready"
    /\ fwd_pc' = IF in_buffer # <<>> THEN "recv" ELSE "exit_check"
    /\ UNCHANGED <<fwd_chunk, remoteVars, bridgeVars, expectVars, termVars,
                   spawnVars, auxVars>>

\* A recv that leaves the bytes it returns in the channel's buffer.
FwdRecvPeek ==
    /\ fwd_pc = "recv"
    /\ fwd_chunk' = Recv(in_buffer, buff_size)
    /\ fwd_pc' = "write"
    /\ UNCHANGED <<emitted, exited, sig, in_buffer, status_ready, chan_closed>>
    /\ UNCHANGED <<bridgeVars, expectVars, termVars, spawnVars, auxVars>>

\* "session.recv(buff_size)"
FwdRecv ==
    /\ fwd_pc = "recv"
    /\ fwd_chunk' = Recv(in_buffer, buff_size)
    /\ in_buffer' = Drop(in_buffer, Len(Recv(in_buffer, buff_size)))
    /\ fwd_pc' = "write"
    /\ UNCHANGED <<emitted, exited, sig, status_ready, chan_closed>>
    /\ UNCHANGED <<bridgeVars, expectVars, termVars, spawnVars, auxVars>>

\* "os.write(stdout, ...)": a blocking write; it returns when the whole
\* chunk is in the pipe, and waits while the pipe is full.
FwdWrite ==
    /\ fwd_pc = "write"
    /\ readOpen
    /\ Len(pipe) < PipeCap
    /\ LET k == Min(PipeCap - Len(pipe), Len(fwd_chunk))
       IN  /\ pipe' = PipeWrite(pipe, fwd_chunk, k)
           /\ fwd_chunk' = Drop(fwd_chunk, k)
           /\ fwd_pc' = IF k = Len(fwd_chunk) THEN "exit_check" ELSE "write"
    /\ UNCHANGED <<writeOpen, remoteVars, expectVars, termVars, spawnVars,
                   auxVars>>

\* os.write on a pipe whose read-end is closed raises BrokenPipeError: the
\* exception leaves redirect() and the thread ends, whether the write was
\* waiting for room or had not started.
FwdWriteBroken ==
    /\ fwd_pc = "write"
    /\ ~readOpen
    /\ fwd_pc' = "broken"
    /\ fwd_chunk' = <<>>
    /\ UNCHANGED <<remoteVars, bridgeVars, expectVars, termVars, spawnVars,
                   auxVars>>

\* "if session.exit_status_ready(): break".  After the break the function
\* returns: the thread ends and nothing is done with stdout.
FwdExitCheck ==
    /\ fwd_pc = "exit_check"
    /\ fwd_pc' = IF status_ready THEN "done" ELSE "recv_ready"
    /\ UNCHANGED <<fwd_chunk, remoteVars, bridgeVars, expectVars, termVars,
                   spawnVars, auxVars>>

---------------------------------------------------------------------------
(* expect(): pexpect's Expecter over the read-end of the pipe.  The        *)
(* paramiko class runs it as expect_loop, the asyncssh class (async_=True) *)
(* as expect_async; both call existing_data, new_data, eof and timeout.    *)

\* A rest that starts one character after the end of the match.
RestSkipsOne(window, r) == SubSeq(window, r.end + 1, Len(window))

\* The text after the match: window[match.end():].
Rest(window, r) == SubSeq(window, r.end, Len(window))

\* Expecter.do_search on window: a match ends the call, and the text after
\* the match stays in the buffer.
DoSearch(window) ==
    LET r == Search(patterns', window)
    IN  IF r.index >= 0
        THEN /\ buffer' = Rest(window, r)
             /\ before' = SubSeq(window, 1, r.start - 1)
             /\ after' = [kind |-> "text",
                          text |-> SubSeq(window, r.start, r.end - 1)]
             /\ match_index' = r.index
             /\ outcome' = "match"
             /\ consumed' = consumed \o before' \o after'.text
             /\ exp_pc' = "idle"
        ELSE /\ buffer' = window
             /\ exp_pc' = "waiting"
             /\ outcome' = "pending"
             /\ UNCHANGED <<before, after, match_index, consumed>>

\* expect(patterns, timeout): the call starts; Expecter.existing_data
\* searches what earlier calls left in the buffer.
ExpectCall(ps, T) ==
    /\ exp_pc = "idle"
    /\ readOpen
    /\ patterns' = ps
    /\ timeout' = T
    /\ elapsed' = 0
    /\ DoSearch(buffer)
    /\ UNCHANGED <<remoteVars, bridgeVars, fwdVars, termVars, spawnVars,
                   auxVars>>

\* The time the call has waited is within its timeout.
InTime(T, e) == ~T.limited \/ e <= T.ticks

\* A timeout that is taken to have elapsed one tick early.
TimedOutEarly(T, e) == T.limited /\ e + 1 >= T.ticks

\* The timeout of the call has elapsed.
TimedOut(T, e) == T.limited /\ e >= T.ticks

\* The read-end is readable: os.read returns what is in the pipe, the
\* decoder turns it into text, Expecter.new_data appends and searches.
ExpectRead ==
    /\ exp_pc = "waiting"
    /\ pipe # <<>>
    /\ InTime(timeout, elapsed)
    /\ pipe' = <<>>
    /\ read_log' = read_log \o pipe
    /\ UNCHANGED <<patterns, timeout, elapsed>>
    /\ DoSearch(buffer \o Decode(pipe))
    /\ UNCHANGED <<writeOpen, remoteVars, fwdVars, termVars, spawnVars>>
    /\ UNCHANGED <<sendVars, haveVars, ctorVars, readOpen>>

\* An eof() that raises whether or not EOF is in the list.
EofOutcomeAlwaysRaise(idx) == "raise_EOF"

\* Expecter.eof: the outcome, given the index of EOF in the pattern list.
EofOutcome(idx) == IF idx >= 0 THEN "eof" ELSE "raise_EOF"

\* The pipe is empty and its write-end is closed: os.read returns b"",
\* read_nonblocking raises EOF, Expecter.eof ends the call.
ExpectEOF ==
    /\ exp_pc = "waiting"
    /\ pipe = <<>>
    /\ ~writeOpen
    /\ InTime(timeout, elapsed)
    /\ before' = buffer
    /\ buffer' = <<>>
    /\ consumed' = consumed \o before'
    /\ after' = [kind |-> "EOF", text |-> <<>>]
    /\ match_index' = EofIndex(patterns)
    /\ outcome' = EofOutcome(EofIndex(patterns))
    /\ exp_pc' = "idle"
    /\ UNCHANGED <<patterns, timeout, elapsed>>
    /\ UNCHANGED <<remoteVars, bridgeVars, fwdVars, termVars, spawnVars,
                   auxVars>>

\* Expecter.timeout: the outcome, given the index of TIMEOUT in the list.
TimeoutOutcome(idx) == IF idx >= 0 THEN "timeout" ELSE "raise_TIMEOUT"

\* A timeout that also throws the buffer away.
ExpectTimeoutDropsBuffer ==
    /\ exp_pc = "waiting"
    /\ TimedOut(timeout, elapsed)
    /\ before' = buffer
    /\ buffer' = <<>>
    /\ after' = [kind |-> "TIMEOUT", text |-> <<>>]
    /\ match_index' = TimeoutIndex(patterns)
    /\ outcome' = TimeoutOutcome(TimeoutIndex(patterns))
    /\ exp_pc' = "idle"
    /\ UNCHANGED <<patterns, timeout, elapsed, consumed>>
    /\ UNCHANGED <<remoteVars, bridgeVars, fwdVars, termVars, spawnVars,
                   auxVars>>

\* The timeout elapsed with no match: select() / asyncio.wait_for give up,
\* Expecter.timeout ends the call.  The buffer is kept.
ExpectTimeout ==
    /\ exp_pc = "waiting"
    /\ TimedOut(timeout, elapsed)
    /\ before' = buffer
    /\ after' = [kind |-> "TIMEOUT", text |-> <<>>]
    /\ match_index' = TimeoutIndex(patterns)
    /\ outcome' = TimeoutOutcome(TimeoutIndex(patterns))
    /\ exp_pc' = "idle"
    /\ UNCHANGED <<patterns, timeout, elapsed, buffer, consumed>>
    /\ UNCHANGED <<remoteVars, bridgeVars, fwdVars, termVars, spawnVars,
                   auxVars>>

\* The clock, while an expect call with a timeout waits.
Tick ==
    /\ exp_pc = "waiting"
    /\ timeout.limited
    /\ elapsed < MaxTime
    /\ elapsed' = elapsed + 1
    /\ UNCHANGED <<exp_pc, patterns, timeout, buffer, before, after,
                   match_index, outcome, consumed>>
    /\ UNCHANGED <<remoteVars, bridgeVars, fwdVars, termVars, spawnVars,
                   auxVars>>

---------------------------------------------------------------------------
(* terminate(force).                                                       *)

\* SSHClientProcessExpect.terminate: ssh_proc.kill() or ssh_proc.terminate()
\* send a signal request on the channel; asyncssh raises OSError when the
\* channel is not open.
TerminateAsyncssh(force) ==
    /\ path = "asyncssh"
    /\ terminated' = TRUE
    /\ IF chan_closed
       THEN /\ term_raised' = TRUE
            /\ UNCHANGED sig
       ELSE /\ term_raised' = FALSE
            /\ sig' = IF force THEN "KILL" ELSE "TERM"
    /\ UNCHANGED <<emitted, exited, in_buffer, status_ready, chan_closed>>
    /\ UNCHANGED <<bridgeVars, fwdVars, expectVars, spawnVars, auxVars>>

\* A terminate that also closes the pipe's write-end.
TerminateParamikoClosingBridge(force) ==
    /\ path = "paramiko"
    /\ terminated' = TRUE
    /\ term_raised' = FALSE
    /\ chan_closed' = TRUE
    /\ status_ready' = TRUE
    /\ writeOpen' = FALSE
    /\ UNCHANGED <<emitted, exited, sig, in_buffer, pipe>>
    /\ UNCHANGED <<fwdVars, expectVars, spawnVars, auxVars>>

\* ParamikoChannelExpect.terminate: ssh_proc.close(), whatever force is.
\* Channel.close returns at once on a closed channel; otherwise it marks
\* the channel closed and sets status_event.
TerminateParamiko(force) ==
    /\ path = "paramiko"
    /\ terminated' = TRUE
    /\ term_raised' = FALSE
    /\ chan_closed' = TRUE
    /\ status_ready' = TRUE
    /\ UNCHANGED <<emitted, exited, sig, in_buffer>>
    /\ UNCHANGED <<bridgeVars, fwdVars, expectVars, spawnVars, auxVars>>

Terminate(force) == TerminateAsyncssh(force) \/ TerminateParamiko(force)

---------------------------------------------------------------------------

Next ==
    \/ \E b \in RemoteBytes : Emit(b)
    \/ RemoteExit
    \/ NativeWrite
    \/ NativeClose
    \/ FwdRecvReady
    \/ FwdRecv
    \/ FwdWrite
    \/ FwdExitCheck
    \/ \E ps \in SysPatternSets, T \in Timeouts : ExpectCall(ps, T)
    \/ ExpectRead
    \/ ExpectEOF
    \/ ExpectTimeout
    \/ Tick
    \/ \E force \in BOOLEAN : Terminate(force)

Spec == Init /\ [][Next]_vars

---------------------------------------------------------------------------
(* Properties of the bridge and of the redirect thread.                    *)

\* Every byte that has entered the pipe so far, in order.
Bridged == Encode(consumed \o buffer) \o pipe

\* A step of the remote side, of a producer or of the reader of the pipe:
\* every step but the passing of time and new calls by the user.
Progress ==
    \/ \E b \in RemoteBytes : Emit(b)
    \/ RemoteExit
    \/ NativeWrite
    \/ NativeClose
    \/ FwdRecvReady
    \/ FwdRecv
    \/ FwdWrite
    \/ FwdExitCheck
    \/ ExpectRead
    \/ ExpectEOF

\* C1: on the paramiko path, once the redirect thread has seen the exit
\* status and stopped, the write-end of the pipe is closed (so that a reader
\* of the pipe reaches end-of-stream).
C1_ForwarderClosesWriteEnd ==
    (path = "paramiko" /\ fwd_pc = "done") => ~writeOpen

\* C2: when the redirect thread stops after the remote command exited,
\* every byte the command wrote has been written to the pipe.
C2_ForwarderDrainsAll ==
    (path = "paramiko" /\ fwd_pc = "done" /\ ~terminated) => Bridged = emitted

\* C3: after terminate(force=True), an expect call that is still waiting
\* within its timeout is never left with nothing but the passing of time
\* ahead of it: some step towards end-of-stream is possible.
C3_ForcedTerminateUnblocksExpect ==
    (/\ terminated
     /\ (path = "asyncssh" => sig = "KILL")
     /\ exp_pc = "waiting"
     /\ InTime(timeout, elapsed)) => ENABLED Progress

\* C4: the text that has reached the expect engine (dropped by earlier
\* matches, then still buffered) is, encoded, a prefix of what the remote
\* command wrote.
C4_BufferIsPrefixOfEmitted ==
    IsPrefix(Encode(consumed \o buffer), emitted)

C4_Witness ==
    /\ path = "paramiko"
    /\ consumed # <<>>
    /\ buffer # <<>>
    /\ Len(emitted) = MaxEmit

---------------------------------------------------------------------------
(* Properties of expect().                                                 *)

\* The last expect call ended at end-of-stream.
EndedAtEOF == exp_pc = "idle" /\ after.kind = "EOF"

\* The last expect call ended by its timeout.
EndedByTimeout == exp_pc = "idle" /\ after.kind = "TIMEOUT"

IsSuffix(s, t) ==
    Len(s) <= Len(t) /\ SubSeq(t, Len(t) - Len(s) + 1, Len(t)) = s

\* C5: a call whose pattern list holds EOF and that ends at end-of-stream
\* returns the index of EOF and does not raise; before holds the text
\* accumulated up to the end of the output.
C5_EofSentinelReturned ==
    (EndedAtEOF /\ \E n \in 1..Len(patterns) : patterns[n] = EOF) =>
        /\ outcome = "eof"
        /\ match_index >= 0
        /\ patterns[match_index + 1] = EOF
        /\ IsSuffix(before, consumed)
        /\ Encode(consumed) = emitted
        /\ buffer = <<>>

C5_Witness ==
    /\ EndedAtEOF
    /\ patterns = <<EOF, Str(<<"a", "b">>)>>
    /\ match_index = 0
    /\ before = <<"b", "a">>

\* C6: a call whose pattern list holds no EOF and that ends at
\* end-of-stream raises EOF: it returns no index and reports no timeout.
C6_EofRaisedWithoutSentinel ==
    (EndedAtEOF /\ \A n \in 1..Len(patterns) : patterns[n] # EOF) =>
        /\ outcome = "raise_EOF"
        /\ match_index = -1

C6_Witness ==
    /\ EndedAtEOF
    /\ patterns = <<Str(<<"a", ".">>), Str(<<"b", "a">>)>>
    /\ outcome = "raise_EOF"
    /\ before = <<"b", "b">>

\* C9: a call that ends by its timeout does so no earlier than the timeout
\* it was given; it returns the index of TIMEOUT when the list holds it and
\* raises TIMEOUT otherwise.
C9_TimeoutNotEarly ==
    EndedByTimeout =>
        /\ timeout.limited
        /\ elapsed >= timeout.ticks
        /\ IF \E n \in 1..Len(patterns) : patterns[n] = TIMEOUT
           THEN outcome = "timeout" /\ match_index >= 0
                /\ patterns[match_index + 1] = TIMEOUT
           ELSE outcome = "raise_TIMEOUT" /\ match_index = -1

C9_Witness ==
    /\ EndedByTimeout
    /\ timeout.ticks = 1
    /\ outcome = "raise_TIMEOUT"
    /\ writeOpen

---------------------------------------------------------------------------
(* Pattern matching: the system with the whole output of a finished        *)
(* command received by asyncssh and not yet written to the pipe, read by   *)
(* expect calls over a wider choice of pattern lists.  The writes to the   *)
(* pipe split the output into every sequence of chunks.                    *)

\* The str patterns of the pattern-matching specification.
SearchPool ==
    { Str(<<"a">>), Str(<<"b">>), Str(<<"a", "b">>), Str(<<"b", "a">>),
      Str(<<"a", ".">>), Str(<<".">>) }

\* Its pattern lists: one str pattern, or two, and lists with EOF alone,
\* first and last.
SearchPatternSets ==
    {<<p>> : p \in SearchPool}
        \cup {<<p, q>> : p \in SearchPool, q \in SearchPool}
        \cup { <<EOF>>, <<EOF, Str(<<"a", "b">>)>>, <<Str(<<"b">>), EOF>> }

\* The byte sequences of length at most n over S.
SeqsUpTo(S, n) == UNION {[1..k -> S] : k \in 0..n}

SearchInit ==
    /\ path = "asyncssh"
    /\ buff_size \in BuffSizes(path)
    /\ emitted \in SeqsUpTo(StreamBytes, MaxEmit)
    /\ exited = TRUE
    /\ sig = "none"
    /\ in_buffer = emitted
    /\ status_ready = FALSE
    /\ chan_closed = TRUE
    /\ pipe = <<>>
    /\ writeOpen = TRUE
    /\ fwd_pc = "none"
    /\ fwd_chunk = <<>>
    /\ exp_pc = "idle"
    /\ patterns = <<>>
    /\ timeout = NoTimeout
    /\ elapsed = 0
    /\ buffer = <<>>
    /\ before = <<>>
    /\ after = NoAfter
    /\ match_index = -1
    /\ outcome = "none"
    /\ consumed = <<>>
    /\ terminated = FALSE
    /\ term_raised = FALSE
    /\ codec_errors = "strict"
    /\ AuxInit

SearchNext ==
    \/ NativeWrite
    \/ NativeClose
    \/ \E ps \in SearchPatternSets : ExpectCall(ps, NoTimeout)
    \/ ExpectRead
    \/ ExpectEOF

SearchSpec == SearchInit /\ [][SearchNext]_vars

\* The last expect call ended with a match of a pattern.
EndedByMatch == exp_pc = "idle" /\ outcome = "match"

\* The buffer that call searched: the text before the match, the match,
\* and the text left in the buffer.
Window == before \o after.text \o buffer

\* The str pattern src, taken literally, occurs in buf at position i.
OccursAt(src, buf, i) ==
    /\ i >= 1
    /\ i + Len(src) - 1 <= Len(buf)
    /\ SubSeq(buf, i, i + Len(src) - 1) = src

Contains(buf, src) == \E i \in 1..Len(buf) : OccursAt(src, buf, i)

\* C7: the match a call returns starts at the earliest position of the
\* buffer at which any pattern of the list matches, and among the patterns
\* that match at that position it is the one listed first, whatever the
\* lengths of the matches and however the buffer arrived.
C7_EarliestThenFirstListed ==
    EndedByMatch =>
        /\ match_index \in 0..(Len(patterns) - 1)
        /\ ReMatchAt(Compile(patterns[match_index + 1].src), Window,
                     Len(before) + 1)
        /\ Len(after.text) = Len(patterns[match_index + 1].src)
        /\ \A n \in 1..Len(patterns), i \in 1..Len(Window) :
              (patterns[n].kind = "str"
                 /\ ReMatchAt(Compile(patterns[n].src), Window, i)) =>
                  \/ i > Len(before) + 1
                  \/ i = Len(before) + 1 /\ n >= match_index + 1

\* Two patterns match at the same position, the longer one listed second.
C7_Witness ==
    /\ EndedByMatch
    /\ patterns = <<Str(<<"a">>), Str(<<"a", "b">>)>>
    /\ match_index = 0
    /\ before = <<"b">>
    /\ buffer = <<"b">>

\* The pattern list is one str pattern.
IsOneStr(ps) == Len(ps) = 1 /\ ps[1].kind = "str"

\* C8 as stated: a call with one str pattern P matches exactly the text P
\* (index 0), and is not left waiting on a buffer that contains P.
C8_LiteralExactSubstring ==
    /\ (EndedByMatch /\ IsOneStr(patterns)) =>
           match_index = 0 /\ after.text = patterns[1].src
    /\ (exp_pc = "waiting" /\ IsOneStr(patterns)) =>
           ~Contains(buffer, patterns[1].src)

\* The str pattern has no character that is special to re.compile.
IsPlain(src) == \A k \in 1..Len(src) : src[k] # "."

\* C8, amended: the same for a pattern P without special characters.
C8_PlainLiteralExactSubstring ==
    /\ (EndedByMatch /\ IsOneStr(patterns) /\ IsPlain(patterns[1].src)) =>
           match_index = 0 /\ after.text = patterns[1].src
    /\ (exp_pc = "waiting" /\ IsOneStr(patterns) /\ IsPlain(patterns[1].src)) =>
           ~Contains(buffer, patterns[1].src)

C8_Witness ==
    /\ EndedByMatch
    /\ patterns = <<Str(<<"a", "b">>)>>
    /\ after.text = <<"a", "b">>
    /\ before = <<".">>
    /\ buffer = <<>>

---------------------------------------------------------------------------
(* Properties of terminate().                                              *)

\* C10: a terminate call that follows an earlier one does not raise and
\* leaves the channel, the remote command, the pipe and the buffer as they
\* were.
C10_TerminateIdempotent ==
    [][\A force \in BOOLEAN :
          (terminated /\ Terminate(force)) =>
              /\ ~term_raised'
              /\ UNCHANGED <<chan_closed, status_ready, exited, in_buffer,
                             pipe, writeOpen, buffer>>]_vars

---------------------------------------------------------------------------
(* send(s).                                                                *)
(*                                                                         *)
(* Text is a sequence of code points, named "a" (U+0061), "E9" (U+00E9),   *)
(* "FFFD" (U+FFFD, the replacement character) and "DC80" (a lone           *)
(* surrogate, which utf-8 cannot encode).  Bytes are integers.             *)

MaxSend == 2
MaxWindow == 2

\* The values of the errors option.
ErrorPolicies == {"strict", "ignore", "replace"}

\* The bytes of a send call: "a", the two bytes of U+00E9, and 0xFF, which
\* is not valid anywhere in utf-8.
SendBytes == {97, 195, 169, 255}

\* The code points of a send call.
SendChars == {"a", "E9", "DC80"}

Bytes(v) == [kind |-> "bytes", val |-> v]

Text(v) == [kind |-> "str", val |-> v]

SendArgs ==
    {Bytes(v) : v \in SeqsUpTo(SendBytes, MaxSend)}
        \cup {Text(v) : v \in SeqsUpTo(SendChars, MaxSend)}

Failed == [ok |-> FALSE, val |-> <<>>]

Cons(x, r) == IF r.ok THEN [ok |-> TRUE, val |-> x \o r.val] ELSE Failed

\* bytes.decode("utf-8", errors) from position i: a valid sequence gives
\* its code point; an invalid byte raises (strict), is dropped (ignore) or
\* becomes U+FFFD (replace).
RECURSIVE DecodeFrom(_, _, _)
DecodeFrom(bs, i, errors) ==
    IF i > Len(bs) THEN [ok |-> TRUE, val |-> <<>>]
    ELSE IF bs[i] = 97 THEN Cons(<<"a">>, DecodeFrom(bs, i + 1, errors))
    ELSE IF bs[i] = 195 /\ i < Len(bs) /\ bs[i + 1] = 169
         THEN Cons(<<"E9">>, DecodeFrom(bs, i + 2, errors))
    ELSE CASE errors = "strict" -> Failed
           [] errors = "ignore" -> DecodeFrom(bs, i + 1, errors)
           [] errors = "replace" ->
                Cons(<<"FFFD">>, DecodeFrom(bs, i + 1, errors))

Utf8Decode(bs, errors) == DecodeFrom(bs, 1, errors)

\* str.encode("utf-8", errors) of one code point.
EncodeChar(c, errors) ==
    CASE c = "a" -> [ok |-> TRUE, val |-> <<97>>]
      [] c = "E9" -> [ok |-> TRUE, val |-> <<195, 169>>]
      [] c = "FFFD" -> [ok |-> TRUE, val |-> <<239, 191, 189>>]
      [] c = "DC80" ->
           CASE errors = "strict" -> Failed
             [] errors = "ignore" -> [ok |-> TRUE, val |-> <<>>]
             [] errors = "replace" -> [ok |-> TRUE, val |-> <<63>>]

RECURSIVE EncodeFrom(_, _, _)
EncodeFrom(cs, i, errors) ==
    IF i > Len(cs) THEN [ok |-> TRUE, val |-> <<>>]
    ELSE LET e == EncodeChar(cs[i], errors)
         IN  IF e.ok THEN Cons(e.val, EncodeFrom(cs, i + 1, errors))
             ELSE Failed

Utf8Encode(cs, errors) == EncodeFrom(cs, 1, errors)

\* A send call that raised: nothing is written, nothing is returned.
SendRaises(s) ==
    /\ send_arg' = s
    /\ stdin' = <<>>
    /\ send_ret' = 0
    /\ send_raised' = TRUE

SendReturns(s, written, n) ==
    /\ send_arg' = s
    /\ stdin' = written
    /\ send_ret' = n
    /\ send_raised' = FALSE

\* SSHClientProcessExpect.send: datalen is the length of the bytes given,
\* or of the encoded str; what is written is the str, or the decoded
\* bytes, which stdin.write encodes with the encoding and errors the
\* process was created with.  A closed channel does not take data.
SendAsyncssh(s) ==
    LET d == IF s.kind = "bytes" THEN Utf8Decode(s.val, codec_errors)
             ELSE [ok |-> TRUE, val |-> s.val]
        e == Utf8Encode(d.val, codec_errors)
        datalen == IF s.kind = "bytes" THEN Len(s.val) ELSE Len(e.val)
    IN  /\ path = "asyncssh"
        /\ IF ~d.ok \/ ~e.ok \/ chan_closed
           THEN SendRaises(s)
           ELSE SendReturns(s, e.val, datalen)
        /\ UNCHANGED <<remoteVars, bridgeVars, fwdVars, expectVars, termVars,
                       spawnVars, haveVars, ctorVars, outVars>>

\* paramiko's asbytes: bytes as they are, a str encoded as utf-8 (strict).
AsBytes(kind, v) ==
    IF kind = "bytes" THEN [ok |-> TRUE, val |-> v] ELSE Utf8Encode(v, "strict")

\* ParamikoChannelExpect.send: Channel.send(s) takes size = len(s), cut to
\* the send window w, puts s[:size] on the channel and returns size.  It
\* raises on a closed channel.
SendParamiko(s, w) ==
    LET size == Min(Len(s.val), w)
        m == AsBytes(s.kind, Take(s.val, size))
    IN  /\ path = "paramiko"
        /\ IF chan_closed \/ ~m.ok
           THEN SendRaises(s)
           ELSE SendReturns(s, m.val, size)
        /\ UNCHANGED <<remoteVars, bridgeVars, fwdVars, expectVars, termVars,
                       spawnVars, haveVars, ctorVars, outVars>>

Send(s, w) == SendAsyncssh(s) \/ SendParamiko(s, w)

\* Send calls on a freshly spawned process, under every errors option.
SendSpecInit ==
    /\ Started
    /\ codec_errors \in ErrorPolicies

SendNext ==
    \/ \E s \in SendArgs, w \in 1..MaxWindow : Send(s, w)
    \/ RemoteExit
    \/ \E force \in BOOLEAN : Terminate(force)

SendSpec == SendSpecInit /\ [][SendNext]_vars

\* The last send call returned.
Sent == send_arg.kind # "none" /\ ~send_raised

\* C11: a send call that returns, returns the number of bytes it put on the
\* channel.
C11_SendReturnsBytesDelivered == Sent => send_ret = Len(stdin)

---------------------------------------------------------------------------
(* spawn(connection, command, **kw): the dispatch, spawn_asyncssh and      *)
(* spawn_paramiko, with the library calls that can raise.                  *)

MaxSpawn == 2

\* redirect(): kwmap["spawn"].get("buff_size", 2048).
DefaultBuffSize == 2048

\* os.pipe() returns the lowest descriptors not in use; 0, 1 and 2 are the
\* standard streams.
FirstFd == 3

\* The options a caller can give.
OptionNames ==
    {"term_type", "term", "width", "height", "width_pixels", "height_pixels",
     "window_size", "max_packet_size", "timeout", "buff_size", "encoding",
     "errors"}

\* kwkeys of spawn_paramiko.
SessionKeys == {"window_size", "max_packet_size", "timeout"}
\* A pty key list that leaves the width out.
PtyKeysWithoutWidth == {"term", "height", "width_pixels", "height_pixels"}
PtyKeys == {"term", "width", "height", "width_pixels", "height_pixels"}
SpawnKeys == {"buff_size", "encoding", "errors"}

\* The value a caller gives for an option: none is the option's default.
OptVal(n) ==
    CASE n = "term_type" -> "xterm"
      [] n = "term" -> "ansi"
      [] n = "width" -> 132
      [] n = "height" -> 43
      [] n = "width_pixels" -> 800
      [] n = "height_pixels" -> 600
      [] n = "window_size" -> 4096
      [] n = "max_packet_size" -> 1024
      [] n = "timeout" -> 5
      [] n = "buff_size" -> 1
      [] n = "encoding" -> "latin-1"
      [] n = "errors" -> "replace"

KwOf(S) == [n \in S |-> OptVal(n)]

\* kw.get(n, d)
Get(f, n, d) == IF n \in DOMAIN f THEN f[n] ELSE d

\* kw[n] = v
With(f, n, v) == [m \in DOMAIN f \cup {n} |-> IF m = n THEN v ELSE f[m]]

\* The loop over kwkeys: the options of one destination that were given.
Restrict(f, S) == [n \in S \cap DOMAIN f |-> f[n]]

\* A dispatch that takes every connection that is not asyncssh's as
\* paramiko's.
DispatchFallThrough(c) ==
    IF HAVE_ASYNCSSH /\ c = "asyncssh" THEN "asyncssh" ELSE "paramiko"

\* spawn(): the two type tests, in order.
Dispatch(c) ==
    IF HAVE_ASYNCSSH /\ c = "asyncssh" THEN "asyncssh"
    ELSE IF HAVE_PARAMIKO /\ c = "paramiko" THEN "paramiko"
    ELSE "unsupported"

AllConnTypes == {"asyncssh", "paramiko", "other"}

\* The types a connection object can have: an instance of a library's class
\* exists only where the library is installed.
ConnTypes ==
    {"other"} \cup (IF HAVE_ASYNCSSH THEN {"asyncssh"} ELSE {})
              \cup (IF HAVE_PARAMIKO THEN {"paramiko"} ELSE {})

\* An os.pipe() that hands out the same two descriptors every time.
PipeFdsFixed(open) == [r |-> FirstFd, w |-> FirstFd + 1]

LowestFree(open) ==
    CHOOSE n \in FirstFd..(FirstFd + Cardinality(open)) :
        n \notin open /\ \A m \in FirstFd..(n - 1) : m \in open

\* os.pipe(): (read-end, write-end).
PipeFds(open) ==
    [r |-> LowestFree(open), w |-> LowestFree(open \cup {LowestFree(open)})]

\* The session channel a successful open gives.
NewSession == Cardinality(sessions) + 1

\* The process has room for one more pipe.
RoomForPipe == Cardinality(fds) < 2 * MaxSpawn

\* os.pipe() raises: the first statement of both spawn functions.
SpawnPipeFails(c) ==
    /\ Dispatch(c) \in {"asyncssh", "paramiko"}
    /\ spawn_err' = "OSError"
    /\ requests' = NoRequests
    /\ UNCHANGED <<fds, sessions, writers, procs>>

\* spawn_asyncssh: the pipe, the defaults of term_type, encoding and
\* errors, create_process(*args, **kw), the SSHClientProcessExpect object.
\* create_process starts the writer that copies the process's stdout to
\* the pipe's write-end.
SpawnAsyncssh(k, fail) ==
    LET p == PipeFds(fds)
        kw1 == With(k, "stdout", p.w)
        kw2 == With(kw1, "term_type", Get(kw1, "term_type", "vt100"))
        kw3 == With(kw2, "encoding", Get(kw2, "encoding", "utf-8"))
        kw4 == With(kw3, "errors", Get(kw3, "errors", "strict"))
    IN  /\ fail \in {"none", "create_process"}
        /\ RoomForPipe
        /\ fds' = fds \cup {p.r, p.w}
        /\ requests' = [NoRequests EXCEPT !.process = kw4]
        /\ IF fail = "none"
           THEN /\ sessions' = sessions \cup {NewSession}
                /\ writers' = Append(writers,
                       [kind |-> "process", fd |-> p.w,
                        session |-> NewSession, buff_size |-> 0])
                /\ procs' = Append(procs,
                       [path |-> "asyncssh", child_fd |-> p.r,
                        stdout |-> p.w, session |-> NewSession,
                        encoding |-> kw4["encoding"],
                        codec_errors |-> kw4["errors"]])
                /\ spawn_err' = "none"
           ELSE /\ spawn_err' = "ChannelOpenError"
                /\ UNCHANGED <<sessions, writers, procs>>

\* spawn_paramiko: the pipe, kwmap, open_session, get_pty, exec_command,
\* the redirect thread, the ParamikoChannelExpect object.
SpawnParamiko(k, fail) ==
    LET p == PipeFds(fds)
        kwmap == [session |-> Restrict(k, SessionKeys),
                  pty |-> Restrict(k, PtyKeys),
                  spawn |-> Restrict(k, SpawnKeys)]
    IN  /\ fail \in {"none", "open_session", "get_pty", "exec_command"}
        /\ RoomForPipe
        /\ fds' = fds \cup {p.r, p.w}
        /\ requests' =
               [session |-> kwmap.session,
                pty |-> IF fail = "open_session" THEN NoKw ELSE kwmap.pty,
                process |-> NoKw]
        /\ sessions' = IF fail = "open_session" THEN sessions
                       ELSE sessions \cup {NewSession}
        /\ IF fail = "none"
           THEN /\ writers' = Append(writers,
                       [kind |-> "thread", fd |-> p.w,
                        session |-> NewSession,
                        buff_size |->
                            Get(kwmap.spawn, "buff_size", DefaultBuffSize)])
                /\ procs' = Append(procs,
                       [path |-> "paramiko", child_fd |-> p.r,
                        stdout |-> p.w, session |-> NewSession,
                        encoding |-> Get(kwmap.spawn, "encoding", "utf-8"),
                        codec_errors |->
                            Get(kwmap.spawn, "errors", "strict")])
                /\ spawn_err' = "none"
           ELSE /\ spawn_err' = "SSHException"
                /\ UNCHANGED <<writers, procs>>

\* spawn(): neither type test passed.
SpawnUnsupported(c) ==
    /\ Dispatch(c) = "unsupported"
    /\ spawn_err' = "ValueError"
    /\ requests' = NoRequests
    /\ UNCHANGED <<fds, sessions, writers, procs>>

Failures == {"none", "pipe", "create_process", "open_session", "get_pty",
             "exec_command"}

\* The arguments of a spawn call; the call touches no object spawned
\* before.
SpawnCall(c, k) ==
    /\ c \in ConnTypes
    /\ connection' = c
    /\ kw' = k
    /\ UNCHANGED <<remoteVars, bridgeVars, fwdVars, expectVars, termVars,
                   spawnVars, sendVars, haveVars, outVars>>

\* One spawn call, with the library call that raises in it (fail).
Spawn(c, k, fail) ==
    \/ fail = "pipe" /\ SpawnPipeFails(c) /\ SpawnCall(c, k)
    \/ Dispatch(c) = "asyncssh" /\ SpawnAsyncssh(k, fail) /\ SpawnCall(c, k)
    \/ Dispatch(c) = "paramiko" /\ SpawnParamiko(k, fail) /\ SpawnCall(c, k)
    \/ fail = "none" /\ SpawnUnsupported(c) /\ SpawnCall(c, k)

\* The option sets of the spawn calls of SpawnSpec.
SpawnKwSets == {{}, {"term_type", "width", "buff_size", "errors"}}

\* Before any spawn call: either library may be missing.
SpawnInit ==
    /\ path = "none"
    /\ buff_size = 0
    /\ codec_errors = "strict"
    /\ fwd_pc = "none"
    /\ Quiet
    /\ SendInit
    /\ HAVE_ASYNCSSH \in BOOLEAN
    /\ HAVE_PARAMIKO \in BOOLEAN
    /\ CtorInit
    /\ OutInit

SpawnNext ==
    \E c \in AllConnTypes, S \in SpawnKwSets, fail \in Failures :
        Spawn(c, KwOf(S), fail)

SpawnSpec == SpawnInit /\ [][SpawnNext]_vars

\* C12: a spawn call with a connection of neither supported type raises
\* the unsupported-connection error and opens nothing: no pipe end, no
\* session, no producer, no object.
C12_UnsupportedOpensNothing ==
    [][\A c \in AllConnTypes, S \in SpawnKwSets, fail \in Failures :
          (c = "other" /\ Spawn(c, KwOf(S), fail)) =>
              /\ spawn_err' = "ValueError"
              /\ UNCHANGED <<fds, sessions, writers, procs>>]_vars

\* An unsupported connection, with paramiko missing, after a spawn that
\* succeeded.
C12_Witness ==
    /\ spawn_err = "ValueError"
    /\ connection = "other"
    /\ ~HAVE_PARAMIKO
    /\ Len(procs) = 1

\* The descriptors and sessions of the objects spawn has returned.
OwnedFds == UNION {{procs[i].child_fd, procs[i].stdout} : i \in DOMAIN procs}

OwnedSessions == {procs[i].session : i \in DOMAIN procs}

\* The last spawn call failed after it had made its pipe.
SpawnFailedLate == spawn_err \in {"SSHException", "ChannelOpenError"}

\* C13: after a spawn call that failed in open_session, get_pty,
\* exec_command or create_process, no producer runs for it, and both pipe
\* ends and the session it had opened are released.
C13_FailedSpawnReleasesAll ==
    SpawnFailedLate =>
        /\ Len(writers) = Len(procs)
        /\ fds = OwnedFds
        /\ sessions = OwnedSessions

\* C14: every object spawn returned has exactly one producer, which writes
\* the object's own write-end (on the paramiko path, one redirect thread
\* bound to the object's session); no producer exists without an object,
\* and no two objects share a pipe end.
C14_OneProducerPerWriteEnd ==
    /\ Len(writers) = Len(procs)
    /\ \A i \in DOMAIN procs :
          /\ Cardinality({j \in DOMAIN writers :
                            writers[j].fd = procs[i].stdout}) = 1
          /\ writers[i].fd = procs[i].stdout
          /\ writers[i].session = procs[i].session
          /\ writers[i].kind =
                 IF procs[i].path = "paramiko" THEN "thread" ELSE "process"
          /\ procs[i].child_fd # procs[i].stdout
    /\ \A i, j \in DOMAIN procs :
          i # j => {procs[i].child_fd, procs[i].stdout}
                       \cap {procs[j].child_fd, procs[j].stdout} = {}

\* Two paramiko spawns in one process.
C14_Witness ==
    /\ Len(procs) = MaxSpawn
    /\ procs[1].path = "paramiko"
    /\ procs[2].path = "paramiko"
    /\ spawn_err = "none"

---------------------------------------------------------------------------
(* The options of one spawn call, over every set of options given.         *)

OptNext ==
    /\ connection = "none"
    /\ \E c \in AllConnTypes, S \in SUBSET OptionNames, fail \in Failures :
          Spawn(c, KwOf(S), fail)

OptSpec == SpawnInit /\ [][OptNext]_vars

\* The spawn call returned an object.
Spawned == Len(procs) = 1 /\ spawn_err = "none"

\* The terminal type of a pty request: Channel.get_pty has term="vt100"
\* as its default.
PtyTerm(req) == Get(req, "term", "vt100")

\* The terminal type the remote pty is asked for.
TermUsed ==
    IF procs[1].path = "asyncssh" THEN requests.process["term_type"]
    ELSE PtyTerm(requests.pty)

\* Every option of S is passed to the request as given, and none of S is
\* passed that was not given.
PassedAsGiven(S, req) ==
    \A n \in S : IF n \in DOMAIN kw THEN n \in DOMAIN req /\ req[n] = kw[n]
                 ELSE n \notin DOMAIN req

\* The options the claim names for the pty request and the session-open
\* request.
Geometry == {"width", "height", "width_pixels", "height_pixels"}

SessionOptions == {"window_size", "max_packet_size", "timeout"}

\* The geometry and session options reach their requests unchanged, and
\* encoding and errors are the caller's or utf-8 and strict.
OptionsPassed ==
    /\ procs[1].encoding = Get(kw, "encoding", "utf-8")
    /\ procs[1].codec_errors = Get(kw, "errors", "strict")
    /\ IF procs[1].path = "asyncssh"
       THEN /\ PassedAsGiven(DOMAIN kw, requests.process)
            /\ requests.process["encoding"] = procs[1].encoding
            /\ requests.process["errors"] = procs[1].codec_errors
       ELSE /\ PassedAsGiven(Geometry, requests.pty)
            /\ PassedAsGiven(SessionOptions, requests.session)
            /\ writers[1].buff_size = Get(kw, "buff_size", DefaultBuffSize)

\* C18 as stated: on both paths the terminal type is the caller's term_type
\* when given and vt100 otherwise, and the other options are passed.
C18_TermTypeOnBothPaths ==
    Spawned => /\ TermUsed = Get(kw, "term_type", "vt100")
               /\ OptionsPassed

\* The option that names the terminal type on each path.
TermOption(p) == IF p = "asyncssh" THEN "term_type" ELSE "term"

\* C18, amended: the terminal type is the caller's term_type on the
\* asyncssh path and the caller's term on the paramiko path, vt100 when
\* that option is not given; the geometry and session options reach their
\* requests unchanged; encoding and errors default to utf-8 and strict.
C18_TermOptionPerPath ==
    Spawned => /\ TermUsed = Get(kw, TermOption(procs[1].path), "vt100")
               /\ OptionsPassed

\* A paramiko spawn given term_type, term and width, but no errors option.
C18_Witness ==
    /\ Spawned
    /\ procs[1].path = "paramiko"
    /\ {"term_type", "term", "width", "timeout"} \subseteq DOMAIN kw
    /\ "errors" \notin DOMAIN kw
    /\ TermUsed = "ansi"

---------------------------------------------------------------------------
(* The output across expect calls.                                         *)

\* C19: over the expect calls made so far, the text every call that ended
\* with a match or at EOF returned (before, then the matched text), followed
\* by what is left in the buffer, is the text of the bytes read from the
\* pipe: nothing read is lost and nothing is returned twice.
C19_NoByteLostOrRepeated == Decode(read_log) = consumed \o buffer

\* One call matched "ab" and left "a" in the buffer; a later call ended at
\* EOF and returned that "a".
C19_Witness ==
    /\ EndedAtEOF
    /\ before = <<"a">>
    /\ consumed = <<"a", "b", "a">>
    /\ read_log = <<97, 98, 97>>

---------------------------------------------------------------------------
(* Expect calls that time out, followed by calls with other patterns.      *)

\* A call for "ab", and a call for "b" that takes TIMEOUT as a pattern.
TimeoutPatternSets ==
    { <<Str(<<"a", "b">>)>>, <<TIMEOUT, Str(<<"b">>)>> }

TimeoutNext ==
    \/ \E b \in RemoteBytes : Emit(b)
    \/ RemoteExit
    \/ NativeWrite
    \/ NativeClose
    \/ FwdRecvReady
    \/ FwdRecv
    \/ FwdWrite
    \/ FwdExitCheck
    \/ \E ps \in TimeoutPatternSets, T \in Timeouts : ExpectCall(ps, T)
    \/ ExpectRead
    \/ ExpectEOF
    \/ ExpectTimeout
    \/ Tick

TimeoutSpec == Init /\ [][TimeoutNext]_vars

\* One of the str patterns of ps occurs in buf.
SomeOccurs(ps, buf) ==
    \E n \in 1..Len(ps) : ps[n].kind = "str" /\ Contains(buf, ps[n].src)

\* C15: the step that ends an expect call by timeout keeps the buffer,
\* returns it as before, and changes nothing of the remote command, the
\* channel, the pipe and the redirect thread; and a call made after it
\* whose pattern occurs in the buffer matches it from the buffer.
C15_TimeoutChangesNothing ==
    [][/\ ExpectTimeout =>
              /\ buffer' = buffer
              /\ before' = buffer
              /\ UNCHANGED <<remoteVars, bridgeVars, fwdVars, termVars,
                             outVars, consumed>>
       /\ \A ps \in TimeoutPatternSets, T \in Timeouts :
              (/\ after.kind = "TIMEOUT"
               /\ SomeOccurs(ps, buffer)
               /\ ExpectCall(ps, T)) =>
                  /\ outcome' = "match"
                  /\ before' \o after'.text \o buffer' = buffer]_vars

\* A call for "ab" has timed out on the paramiko path with "b" in the
\* buffer, while the remote command and the redirect thread are running.
C15_Witness ==
    /\ EndedByTimeout
    /\ path = "paramiko"
    /\ patterns = <<Str(<<"a", "b">>)>>
    /\ buffer = <<"b">>
    /\ before = <<"b">>
    /\ ~exited
    /\ ~chan_closed
    /\ writeOpen
    /\ fwd_pc = "write"

---------------------------------------------------------------------------
(* send, terminate and close(), interleaved with the output path.          *)

\* fdspawn.close(), which both classes inherit: os.close(child_fd).  What
\* is in the pipe is discarded with its read-end.
CloseRead ==
    /\ readOpen
    /\ exp_pc = "idle"
    /\ readOpen' = FALSE
    /\ pipe' = <<>>
    /\ UNCHANGED <<writeOpen, read_log>>
    /\ UNCHANGED <<remoteVars, fwdVars, expectVars, termVars, spawnVars,
                   sendVars, haveVars, ctorVars>>

\* The send calls of IOSpec.
IOSendArgs == {Bytes(<<97>>)}

IONext ==
    \/ \E b \in RemoteBytes : Emit(b)
    \/ RemoteExit
    \/ NativeWrite
    \/ NativeClose
    \/ FwdRecvReady
    \/ FwdRecv
    \/ FwdWrite
    \/ FwdWriteBroken
    \/ FwdExitCheck
    \/ \E ps \in SysPatternSets : ExpectCall(ps, NoTimeout)
    \/ ExpectRead
    \/ ExpectEOF
    \/ \E force \in BOOLEAN : Terminate(force)
    \/ \E s \in IOSendArgs, w \in 1..MaxWindow : Send(s, w)
    \/ CloseRead

IOSpec == Init /\ [][IONext]_vars

\* C16: a send or terminate call, at any point of an expect call and of the
\* producer's work, changes neither the pipe's contents, nor its ends, nor
\* the expect engine's buffer and results, nor the redirect thread.
C16_SendTerminateLeaveOutputPath ==
    [][\A s \in IOSendArgs, w \in 1..MaxWindow, force \in BOOLEAN :
          (Send(s, w) \/ Terminate(force)) =>
              UNCHANGED <<bridgeVars, outVars, expectVars, fwdVars,
                          spawnVars, emitted, in_buffer>>]_vars

\* A send that returned and a terminate, both made while an expect call
\* waits, the pipe holds output and the redirect thread is in os.write.
C16_Witness ==
    /\ path = "paramiko"
    /\ Sent
    /\ terminated
    /\ exp_pc = "waiting"
    /\ pipe # <<>>
    /\ fwd_pc = "write"

\* One step of the redirect thread.
FwdStep ==
    FwdRecvReady \/ FwdRecv \/ FwdWrite \/ FwdWriteBroken \/ FwdExitCheck

\* The redirect thread has ended: it returned, or an exception left it.
FwdFinished == fwd_pc \in {"done", "broken"}

\* C17: on the paramiko path, once terminate() was called or the remote
\* command exited, the redirect thread can always take its next step until
\* it has ended, also while no expect call reads the pipe and after the
\* read-end was closed.
C17_ForwarderCanFinish ==
    (path = "paramiko" /\ status_ready /\ exp_pc = "idle" /\ ~FwdFinished)
        => ENABLED FwdStep

====
